---- MODULE Spec2Model ----
(***************************************************************************)
(* Model of sieve's arXiv retrieval pipeline (src/sieve/arxiv.py):         *)
(* html_escaping, search_url, get_feed (retry with backoff) and the        *)
(* generator query (pagination with the count and date stop conditions),   *)
(* driven by a consumer that pulls records one at a time.                  *)
(***************************************************************************)
EXTENDS Integers, Sequences, FiniteSets, TLC

----------------------------------------------------------------------------
(* Bounds of the model *)

\* max_results is drawn from 1..MaxSmall and from values around PageLimit
MaxSmall == 2
\* highest page index the model lets query request (the while loop has no bound)
MaxPage == 3
\* get_feed is called directly with max_tries in 0..MaxTriesArg
MaxTriesArg == 4
\* html_escaping is applied to every string of up to MaxQueryLen characters
MaxQueryLen == 3
\* a collection holds up to MaxStored papers, with ids below MaxStored
MaxStored == 2
\* the longest title or summary of an entry given to paper_from_arxiv_entry
MaxTextLen == 4

(* Program constants *)

\* min(max_results, 1000), arxiv.py:99
PageLimit == 1000
\* max_tries: int = 10, arxiv.py:68
DefaultMaxTries == 10
\* sleep(3 * ...), arxiv.py:83
BackoffBase == 3
\* query(max_results=10), cli.py:8
RunMaxResults == 10

----------------------------------------------------------------------------
(* Values *)

\* Optional arguments: Python's None and a present value
None == [some |-> FALSE, v |-> 0]
Some(x) == [some |-> TRUE, v |-> x]

\* backoff_scaling is a float; the model keeps it as the fraction num/den
\* (1.5 = 3/2 and its powers up to the 10th are exact in binary floating point)
DefaultScaling == [num |-> 3, den |-> 2]
Scalings == {[num |-> 1, den |-> 1], DefaultScaling, [num |-> 2, den |-> 1]}

RECURSIVE Pow(_, _)
Pow(b, e) == IF e = 0 THEN 1 ELSE b * Pow(b, e - 1)

\* Waits are counted in units of 1/den^TriesCap seconds, so that every
\* 3 * scaling^i with i <= TriesCap is a whole number of units.
TriesCap == DefaultMaxTries + MaxTriesArg
WaitUnit(s) == Pow(s.den, TriesCap)

\* mutant: the exponent counts attempts from 1
Backoff_FromOne(s, i) ==
    BackoffBase * Pow(s.num, i + 1) * Pow(s.den, TriesCap - (i + 1))

\* sleep(3 * backoff_scaling**current_try), in wait units
Backoff(s, i) == BackoffBase * Pow(s.num, i) * Pow(s.den, TriesCap - i)

----------------------------------------------------------------------------
(* html_escaping and search_url; strings are sequences of characters *)

RECURSIVE Replace(_, _, _)
\* str.replace(source, destination) for a one-character source
Replace(s, source, destination) ==
    IF s = <<>> THEN <<>>
    ELSE (IF Head(s) = source THEN destination ELSE <<Head(s)>>)
             \o Replace(Tail(s), source, destination)

\* mutant: the closing parenthesis is left out of the replacements
html_escaping_NoClose(string) ==
    Replace(Replace(Replace(string,
        "\"", <<"%", "2", "2">>),
        " ", <<"+">>),
        "(", <<"%", "2", "8">>)

html_escaping(string) ==
    Replace(Replace(Replace(Replace(string,
        "\"", <<"%", "2", "2">>),
        " ", <<"+">>),
        "(", <<"%", "2", "8">>),
        ")", <<"%", "2", "9">>)

\* mutant: the offset is the page index, not page * max_results
search_url_PageStart(q, p, m) ==
    [search_query |-> html_escaping(q),
     sortBy       |-> "submittedDate",
     sortOrder    |-> "descending",
     start        |-> p,
     max_results  |-> m]

\* The URL is kept as its parameters, in the order the code joins them
search_url(q, p, m) ==
    [search_query |-> html_escaping(q),
     sortBy       |-> "submittedDate",
     sortOrder    |-> "descending",
     start        |-> p * m,
     max_results  |-> m]

NoUrl == [search_query |-> <<>>, sortBy |-> "", sortOrder |-> "",
          start |-> 0, max_results |-> 0]

----------------------------------------------------------------------------
(* The feed behind the API: entry i (from 0) of the result list, newest     *)
(* first.  A page is the window [lo, lo + n) of that list.                  *)

\* published date of entry i: one day older per entry, the same for all, or
\* (a feed that is not sorted by date) one day older per entry with each
\* pair of neighbours swapped: 1, 0, -1, -2, -3, -4, ... becomes
\* 0, 1, -2, -1, -4, -3, ...
PubDate(f, i) ==
    IF f.dates = "decreasing" THEN 0 - i
    ELSE IF f.dates = "zigzag" THEN (IF i % 2 = 0 THEN 0 - i ELSE 2 - i)
    ELSE 0

Min(a, b) == IF a < b THEN a ELSE b
Max(a, b) == IF a > b THEN a ELSE b

\* parse(urlopen(url).read()) when it succeeds: data["entries"].  The server
\* answers with the entries from `start` on: max_results of them, fewer where
\* the list ends, or f.extra more than it was asked for.
FeedResponse(f, u) ==
    [lo |-> u.start,
     n  |-> IF f.finite THEN Max(0, Min(u.max_results, f.len - u.start))
            ELSE u.max_results + f.extra]

NoData == [lo |-> 0, n |-> 0]

\* the keys paper_from_arxiv_entry reads from an entry
EntryKeys ==
    {"id", "title", "authors", "summary", "published_parsed", "updated_parsed"}

\* entry i of the feed as feedparser hands it over; `keys` are the keys the
\* mapping has, and entry f.bad (if any) lacks one.  A time tuple is kept as
\* one number, the time its first six fields denote.
FeedEntry(f, i) ==
    [keys             |-> IF i = f.bad THEN EntryKeys \ {"summary"} ELSE EntryKeys,
     id               |-> i,
     title            |-> <<"a", "\n", " ", "b">>,
     authors          |-> <<[name |-> "x"], [name |-> "y"]>>,
     summary          |-> <<"a", "\n", "b">>,
     published_parsed |-> PubDate(f, i),
     updated_parsed   |-> PubDate(f, i)]

\* Python's str.split() separators among the characters of the model
Whitespace == {" ", "\n", "\t"}

RECURSIVE SplitWords(_, _)
\* str.split(): the maximal runs of non-whitespace characters of s, in
\* order; `word` is the run being read
SplitWords(s, word) ==
    IF s = <<>> THEN (IF word = <<>> THEN <<>> ELSE <<word>>)
    ELSE IF Head(s) \in Whitespace
         THEN (IF word = <<>> THEN <<>> ELSE <<word>>) \o SplitWords(Tail(s), <<>>)
         ELSE SplitWords(Tail(s), Append(word, Head(s)))

RECURSIVE Join(_, _)
\* sep.join(words)
Join(words, sep) ==
    IF words = <<>> THEN <<>>
    ELSE IF Len(words) = 1 THEN words[1]
    ELSE words[1] \o sep \o Join(Tail(words), sep)

\* mutant: the title only has its newlines replaced, like the abstract
NormTitle_NewlinesOnly(title) == Replace(title, "\n", <<" ">>)

\* " ".join(entry["title"].replace("\n", " ").split())
NormTitle(title) == Join(SplitWords(Replace(title, "\n", <<" ">>), <<>>), <<" ">>)

\* entry["summary"].replace("\n", " ")
NormAbstract(summary) == Replace(summary, "\n", <<" ">>)

\* mutant: missing keys are tolerated (entry.get instead of entry[...])
Malformed_Never(entry) == FALSE

\* an entry[...] lookup of paper_from_arxiv_entry raises KeyError
Malformed(entry) == ~(EntryKeys \subseteq entry.keys)

\* paper_from_arxiv_entry(entry) for an entry that has every key
paper_from_arxiv_entry(entry) ==
    [id             |-> entry.id,
     title          |-> NormTitle(entry.title),
     authors        |-> [k \in 1..Len(entry.authors) |-> entry.authors[k].name],
     abstract       |-> NormAbstract(entry.summary),
     date_published |-> entry.published_parsed,
     date_updated   |-> entry.updated_parsed,
     embedding      |-> None]

NoPaper ==
    [id |-> 0 - 1, title |-> <<>>, authors |-> <<>>, abstract |-> <<>>,
     date_published |-> 0, date_updated |-> 0, embedding |-> None]

----------------------------------------------------------------------------
(* Inputs *)

QueryStrings == {<<"a", " ", "(", "b", ")">>}

MaxResultsArgs ==
    {None} \cup {Some(n) : n \in (1..MaxSmall)
                     \cup {PageLimit, PageLimit + 1, 2 * PageLimit + 1}}

\* until = -b is the date of entry b of a decreasing feed: entry b + 1 is the
\* first one older than until.  until = 1 is later than every entry.
UntilArgs ==
    {None} \cup {Some(0 - b) : b \in {0 - 1, 0, 1, PageLimit - 1, PageLimit}}

\* no entry of the feed is malformed
NoBad == 0 - 1

Feeds ==
    {[finite |-> FALSE, len |-> 0, dates |-> d, bad |-> NoBad, extra |-> 0] :
        d \in {"decreasing", "flat"}}
    \cup {[finite |-> TRUE, len |-> l, dates |-> d, bad |-> NoBad, extra |-> 0] :
             l \in {0, 1, PageLimit}, d \in {"decreasing", "flat"}}
    \cup {[finite |-> FALSE, len |-> 0, dates |-> "decreasing", bad |-> j,
           extra |-> 0] :
             j \in {0, 1, PageLimit}}
    \cup {[finite |-> FALSE, len |-> 0, dates |-> "zigzag", bad |-> NoBad, extra |-> 0]}
    \cup {[finite |-> FALSE, len |-> 0, dates |-> "decreasing", bad |-> NoBad,
           extra |-> 1]}

----------------------------------------------------------------------------
VARIABLES
    \* arguments of query and the feed it runs against
    query_string, until, max_results, feed,
    \* the generator's frame
    pc, err, page, count, url, data, pos, paper,
    \* get_feed's frame
    gf_pc, current_try, sleeps, waited, attempts, max_tries, backoff_scaling, ret,
    \* an attempt failed in an earlier get_feed call of this iteration
    earlier_failed,
    \* the consumer and what it has seen
    consumer, pulls, delivered, requests,
    \* a call of html_escaping on its own: argument and result
    esc_pc, esc_in, esc_out,
    \* a call of paper_from_arxiv_entry on its own: argument and result
    ent_pc, entry, made,
    \* the callers of query: FileBackend (its collection) and the CLI
    app_pc, app_call, app_err, collection, papers0, looked, printed

args == <<query_string, until, max_results, feed>>
gen == <<pc, err, page, count, url, data, pos, paper>>
gf == <<gf_pc, current_try, sleeps, waited, attempts, max_tries, backoff_scaling, ret,
        earlier_failed>>
env == <<consumer, pulls, delivered, requests>>
esc == <<esc_pc, esc_in, esc_out>>
\* what the actions of query and get_feed never touch
app == <<app_pc, app_call, app_err, collection, papers0, looked, printed>>
ent == <<ent_pc, entry, made>>
aux == <<esc, app, ent>>
vars == <<args, gen, gf, env, aux>>

----------------------------------------------------------------------------
(* get_feed *)

\* mutant: the loop runs once more than max_tries
TryLeft_Inclusive == current_try <= max_tries

\* for current_try in range(max_tries): another iteration is left
TryLeft == current_try < max_tries

\* mutant: the attempt index is kept across calls, so a call that follows a
\* call with a failed attempt starts at index 1
GetFeedCall_Shared ==
    /\ gf_pc' = "try"
    /\ current_try' = IF earlier_failed \/ sleeps # <<>> THEN 1 ELSE 0
    /\ sleeps' = <<>>
    /\ waited' = 0
    /\ attempts' = 0
    /\ earlier_failed' = (earlier_failed \/ sleeps # <<>>)
    /\ UNCHANGED <<max_tries, backoff_scaling, ret>>

\* entering get_feed(url): the loop starts at current_try = 0
GetFeedCall ==
    /\ gf_pc' = "try"
    /\ current_try' = 0
    /\ sleeps' = <<>>
    /\ waited' = 0
    /\ attempts' = 0
    /\ earlier_failed' = (earlier_failed \/ sleeps # <<>>)
    /\ UNCHANGED <<max_tries, backoff_scaling, ret>>

\* get_feed's frame is gone once the caller has its result or its exception
GetFeedExit ==
    /\ gf_pc' = "idle"
    /\ current_try' = 0
    /\ sleeps' = <<>>
    /\ waited' = 0
    /\ attempts' = 0
    /\ ret' = NoData
    /\ earlier_failed' = (earlier_failed \/ sleeps # <<>>)
    /\ UNCHANGED <<max_tries, backoff_scaling>>

\* get_feed(url, backoff_scaling, max_tries) called on its own
GetFeedDirect ==
    /\ pc = "direct"
    /\ gf_pc = "idle"
    /\ GetFeedCall
    /\ UNCHANGED <<aux, args, gen, env>>

\* an attempt succeeds: return parse(...)
GetFeedReturn ==
    /\ gf_pc = "try"
    /\ TryLeft
    /\ gf_pc' = "returned"
    /\ ret' = FeedResponse(feed, url)
    /\ attempts' = attempts + 1
    /\ UNCHANGED <<current_try, sleeps, waited, max_tries, backoff_scaling,
                   earlier_failed>>
    /\ UNCHANGED <<aux, args, gen, env>>

\* mutant: no wait after the last attempt, the error is raised at once
GetFeedFail_NoFinalWait ==
    /\ gf_pc = "try"
    /\ TryLeft
    /\ attempts' = attempts + 1
    /\ sleeps' = IF current_try + 1 < max_tries
                 THEN Append(sleeps, Backoff(backoff_scaling, current_try))
                 ELSE sleeps
    /\ waited' = IF current_try + 1 < max_tries
                 THEN waited + Backoff(backoff_scaling, current_try)
                 ELSE waited
    /\ current_try' = current_try + 1
    /\ UNCHANGED <<gf_pc, max_tries, backoff_scaling, ret, earlier_failed>>
    /\ UNCHANGED <<aux, args, gen, env>>

\* an attempt fails: except: sleep(3 * backoff_scaling**current_try)
GetFeedFail ==
    /\ gf_pc = "try"
    /\ TryLeft
    /\ attempts' = attempts + 1
    /\ sleeps' = Append(sleeps, Backoff(backoff_scaling, current_try))
    /\ waited' = waited + Backoff(backoff_scaling, current_try)
    /\ current_try' = current_try + 1
    /\ UNCHANGED <<gf_pc, max_tries, backoff_scaling, ret, earlier_failed>>
    /\ UNCHANGED <<aux, args, gen, env>>

\* the loop is exhausted: raise ValueError
GetFeedRaise ==
    /\ gf_pc = "try"
    /\ ~TryLeft
    /\ gf_pc' = "raised"
    /\ UNCHANGED <<current_try, sleeps, waited, attempts, max_tries, backoff_scaling, ret,
                   earlier_failed>>
    /\ UNCHANGED <<aux, args, gen, env>>

----------------------------------------------------------------------------
(* query *)

\* if until is None and max_results is None: raise ValueError
NoStopCondition == ~until.some /\ ~max_results.some

\* min(max_results, 1000): Python 3 raises TypeError when max_results is None
PerPage == IF max_results.some
           THEN [ok |-> TRUE, v |-> Min(max_results.v, PageLimit)]
           ELSE [ok |-> FALSE, v |-> 0]

\* mutant: the count check misses the record that reaches the limit
CountReached_Strict(c) == max_results.some /\ c > max_results.v

\* if max_results is not None and count >= max_results
CountReached(c) == max_results.some /\ c >= max_results.v

\* mutant: a paper published exactly at `until` stops the iteration too
DateReached_Inclusive(p) == until.some /\ p.date_published <= until.v

\* if until and paper.date_published < until
DateReached(p) == until.some /\ p.date_published < until.v

\* url = search_url(...); data = get_feed(url): up to the entry into get_feed
RequestPage(p) ==
    IF PerPage.ok
    THEN /\ p <= MaxPage
         /\ url' = search_url(query_string, p, PerPage.v)
         /\ requests' = Append(requests, url')
         /\ pc' = "get_feed"
         /\ err' = err
         /\ GetFeedCall
    ELSE /\ pc' = "error"
         /\ err' = "TypeError"
         /\ UNCHANGED <<url, requests, gf>>

\* the head of `for entry in data["entries"]` at position p of page d:
\* build the paper of the next entry (KeyError if the entry is malformed) and
\* yield it, or leave the loop, page += 1, and request that page
ForEntry(d, p) ==
    /\ data' = d
    /\ IF p < d.n
       THEN IF Malformed(FeedEntry(feed, d.lo + p))
            THEN /\ pc' = "error"
                 /\ err' = "MalformedEntry"
                 /\ pos' = p
                 /\ GetFeedExit
                 /\ UNCHANGED <<paper, delivered, page, url, requests>>
            ELSE /\ paper' = paper_from_arxiv_entry(FeedEntry(feed, d.lo + p))
                 /\ delivered' = Append(delivered, paper'.id)
                 /\ pos' = p + 1
                 /\ pc' = "yield"
                 /\ GetFeedExit
                 /\ UNCHANGED <<err, page, url, requests>>
       ELSE /\ page' = page + 1
            /\ pos' = p
            /\ RequestPage(page + 1)
            /\ UNCHANGED <<paper, delivered>>

\* mutant: the body starts running at the call, up to the first fetch
QueryCall_Eager ==
    /\ pc = "idle"
    /\ ~NoStopCondition
    /\ page' = 0
    /\ count' = 0
    /\ RequestPage(0)
    /\ UNCHANGED <<data, pos, paper, consumer, pulls, delivered>>
    /\ UNCHANGED <<aux, args>>

\* the call query(...): a generator is created, none of its body runs
QueryCall ==
    /\ pc = "idle"
    /\ pc' = "created"
    /\ UNCHANGED <<err, page, count, url, data, pos, paper>>
    /\ UNCHANGED <<aux, args, gf, env>>

\* the consumer's first next(): the body runs from its first line
NextFirst ==
    /\ consumer = "active"
    /\ pc = "created"
    /\ pulls' = pulls + 1
    /\ IF NoStopCondition
       THEN /\ pc' = "error"
            /\ err' = "NoStopCondition"
            /\ UNCHANGED <<page, count, url, requests, gf>>
       ELSE /\ page' = 0
            /\ count' = 0
            /\ RequestPage(0)
    /\ UNCHANGED <<data, pos, paper, delivered, consumer>>
    /\ UNCHANGED <<aux, args>>

\* get_feed returned: data = ..., and the for loop starts
FeedReturned ==
    /\ pc = "get_feed"
    /\ gf_pc = "returned"
    /\ ForEntry(ret, 0)
    /\ UNCHANGED <<count, consumer, pulls>>
    /\ UNCHANGED <<aux, args>>

\* mutant: a failed fetch is taken for an empty page and the loop goes on
FeedRaised_Skip ==
    /\ pc = "get_feed"
    /\ gf_pc = "raised"
    /\ count' = count
    /\ ForEntry(NoData, 0)
    /\ UNCHANGED <<consumer, pulls>>
    /\ UNCHANGED <<aux, args>>

\* get_feed raised: the exception leaves the generator
FeedRaised ==
    /\ pc = "get_feed"
    /\ gf_pc = "raised"
    /\ pc' = "error"
    /\ err' = "FeedUnavailable"
    /\ GetFeedExit
    /\ UNCHANGED <<page, count, url, data, pos, paper>>
    /\ UNCHANGED <<aux, args, env>>

\* a later next(): the body resumes after the yield
NextResume ==
    /\ consumer = "active"
    /\ pc = "yield"
    /\ pulls' = pulls + 1
    /\ count' = count + 1
    /\ IF CountReached(count + 1) \/ DateReached(paper)
       THEN /\ pc' = "done"
            /\ UNCHANGED <<err, page, url, data, pos, paper, delivered, requests, gf>>
       ELSE ForEntry(data, pos)
    /\ UNCHANGED consumer
    /\ UNCHANGED <<aux, args>>

\* the consumer stops pulling while the generator is suspended
Abandon ==
    /\ consumer = "active"
    /\ pc \in {"created", "yield"}
    /\ consumer' = "stopped"
    /\ UNCHANGED <<pulls, delivered, requests>>
    /\ UNCHANGED <<aux, args, gen, gf>>

----------------------------------------------------------------------------
NoCollection == [query_string |-> <<>>, date_updated |-> 0, papers |-> <<>>]
NoLook == [kind |-> "none", arg |-> 0, is_class |-> FALSE, value |-> NoPaper]

\* no FileBackend and no CLI
AppIdle ==
    /\ app_pc = "none" /\ app_call = "none" /\ app_err = "none"
    /\ collection = NoCollection /\ papers0 = <<>>
    /\ looked = NoLook /\ printed = <<>>

NoFeed == [finite |-> TRUE, len |-> 0, dates |-> "flat", bad |-> NoBad, extra |-> 0]

NoEntry ==
    [keys |-> {}, id |-> 0 - 1, title |-> <<>>, authors |-> <<>>, summary |-> <<>>,
     published_parsed |-> 0, updated_parsed |-> 0]

\* paper_from_arxiv_entry is not called on its own
EntIdle == ent_pc = "idle" /\ entry = NoEntry /\ made = NoPaper

\* no call of the other functions is under way
AuxIdle ==
    /\ esc_pc = "idle" /\ esc_in = <<>> /\ esc_out = <<>>
    /\ AppIdle
    /\ EntIdle

\* query and get_feed are not running
QueryIdle ==
    /\ query_string = <<>> /\ until = None /\ max_results = None
    /\ pc = "none" /\ err = "none"
    /\ page = 0 /\ count = 0 /\ url = NoUrl /\ data = NoData /\ pos = 0
    /\ paper = NoPaper
    /\ gf_pc = "idle" /\ current_try = 0 /\ sleeps = <<>> /\ waited = 0
    /\ attempts = 0 /\ ret = NoData /\ earlier_failed = FALSE
    /\ max_tries = DefaultMaxTries /\ backoff_scaling = DefaultScaling
    /\ consumer = "active" /\ pulls = 0 /\ delivered = <<>> /\ requests = <<>>

Init ==
    /\ query_string \in QueryStrings
    /\ until \in UntilArgs
    /\ max_results \in MaxResultsArgs
    /\ feed \in Feeds
    /\ pc = "idle" /\ err = "none"
    /\ page = 0 /\ count = 0 /\ url = NoUrl /\ data = NoData /\ pos = 0
    /\ paper = NoPaper
    /\ gf_pc = "idle" /\ current_try = 0 /\ sleeps = <<>> /\ waited = 0
    /\ attempts = 0 /\ ret = NoData /\ earlier_failed = FALSE
    /\ max_tries = DefaultMaxTries /\ backoff_scaling = DefaultScaling
    /\ consumer = "active" /\ pulls = 0 /\ delivered = <<>> /\ requests = <<>>
    /\ AuxIdle

Next ==
    \/ QueryCall
    \/ NextFirst
    \/ GetFeedReturn
    \/ GetFeedFail
    \/ GetFeedRaise
    \/ FeedReturned
    \/ FeedRaised
    \/ NextResume
    \/ Abandon

Spec == Init /\ [][Next]_vars

----------------------------------------------------------------------------
(* get_feed on its own, for every max_tries and backoff_scaling of the model *)

MaxTriesArgs == (0..MaxTriesArg) \cup {DefaultMaxTries}

GetFeedInit ==
    /\ query_string \in QueryStrings
    /\ until = None
    /\ max_results = None
    /\ feed \in Feeds
    /\ pc = "direct" /\ err = "none"
    /\ page = 0 /\ count = 0 /\ data = NoData /\ pos = 0 /\ paper = NoPaper
    /\ url \in {search_url(query_string, p, m) : p \in 0..1, m \in {1, PageLimit}}
    /\ gf_pc = "idle" /\ current_try = 0 /\ sleeps = <<>> /\ waited = 0
    /\ attempts = 0 /\ ret = NoData /\ earlier_failed = FALSE
    /\ max_tries \in MaxTriesArgs /\ backoff_scaling \in Scalings
    /\ consumer = "active" /\ pulls = 0 /\ delivered = <<>> /\ requests = <<>>
    /\ AuxIdle

GetFeedNext ==
    \/ GetFeedDirect
    \/ GetFeedReturn
    \/ GetFeedFail
    \/ GetFeedRaise

GetFeedSpec == GetFeedInit /\ [][GetFeedNext]_vars

----------------------------------------------------------------------------
(* html_escaping on its own, for every string of the model *)

\* the reserved characters, two characters of the escapes, and a plain letter
Chars == {"\"", " ", "(", ")", "%", "2", "+", "a"}

RECURSIVE Strings(_)
\* the strings over Chars of length up to n
Strings(n) ==
    IF n = 0 THEN {<<>>}
    ELSE Strings(n - 1)
         \cup {Append(t, c) : t \in {u \in Strings(n - 1) : Len(u) = n - 1}, c \in Chars}

\* the call html_escaping(esc_in) and its return
Escape ==
    /\ esc_pc = "called"
    /\ esc_out' = html_escaping(esc_in)
    /\ esc_pc' = "returned"
    /\ UNCHANGED <<esc_in, app, ent, args, gen, gf, env>>

EscapeInit ==
    /\ QueryIdle
    /\ feed = NoFeed
    /\ AppIdle
    /\ EntIdle
    /\ esc_pc = "called"
    /\ esc_in \in Strings(MaxQueryLen)
    /\ esc_out = <<>>

EscapeNext == Escape

EscapeSpec == EscapeInit /\ [][EscapeNext]_vars

----------------------------------------------------------------------------
(* paper_from_arxiv_entry on its own, over every short title and summary *)

TextChars == {"a", " ", "\n", "\t"}

RECURSIVE Texts(_)
\* the texts over TextChars of length up to n
Texts(n) ==
    IF n = 0 THEN {<<>>}
    ELSE Texts(n - 1)
         \cup {Append(t, c) : t \in {u \in Texts(n - 1) : Len(u) = n - 1},
                              c \in TextChars}

\* the keys and the author list of an entry: three entries that have every
\* key, and one that lacks its title
EntryShapes ==
    {[keys |-> EntryKeys, authors |-> a] :
        a \in {<<>>, <<[name |-> "x"], [name |-> "y"]>>,
                     <<[name |-> "y"], [name |-> "x"]>>}}
    \cup {[keys |-> EntryKeys \ {"title"}, authors |-> <<[name |-> "x"]>>]}

\* the entries given to paper_from_arxiv_entry: every text as the title next
\* to a fixed summary, and every text as the summary next to a fixed title
Entries ==
    {[keys |-> sh.keys, id |-> 0, title |-> t.title, authors |-> sh.authors,
      summary |-> t.summary, published_parsed |-> 0, updated_parsed |-> 0] :
        sh \in EntryShapes,
        t \in {[title |-> x, summary |-> <<"a">>] : x \in Texts(MaxTextLen)}
              \cup {[title |-> <<"a">>, summary |-> x] : x \in Texts(MaxTextLen)}}

\* the call paper_from_arxiv_entry(entry): its return, or the KeyError of a
\* missing key
MakePaper ==
    /\ ent_pc = "called"
    /\ IF Malformed(entry)
       THEN ent_pc' = "raised" /\ made' = made
       ELSE ent_pc' = "returned" /\ made' = paper_from_arxiv_entry(entry)
    /\ UNCHANGED <<entry, esc, app, args, gen, gf, env>>

EntryInit ==
    /\ QueryIdle
    /\ feed = NoFeed
    /\ AppIdle
    /\ esc_pc = "idle" /\ esc_in = <<>> /\ esc_out = <<>>
    /\ ent_pc = "called"
    /\ entry \in Entries
    /\ made = NoPaper

EntryNext == MakePaper

EntrySpec == EntryInit /\ [][EntryNext]_vars

----------------------------------------------------------------------------
(* The callers of query: FileBackend.update and .paper (backend.py) and the *)
(* CLI's run (cli.py)                                                       *)

\* the papers a collection file may hold
StoredPapers ==
    {[NoPaper EXCEPT !.id = i, !.date_published = d] :
        i \in 0..(MaxStored - 1), d \in {0, 1}}

RECURSIVE PaperLists(_)
\* the lists of up to n stored papers
PaperLists(n) ==
    IF n = 0 THEN {<<>>}
    ELSE PaperLists(n - 1)
         \cup {Append(l, x) : l \in {k \in PaperLists(n - 1) : Len(k) = n - 1},
                              x \in StoredPapers}

Collections ==
    [query_string : QueryStrings, date_updated : {0 - 1, 0, 1},
     papers : PaperLists(MaxStored)]

\* the keyword arguments of run's call: query(max_results=10)
RunKwargs == [max_results |-> RunMaxResults]

\* Python binds a call's arguments before the body (or a generator) exists:
\* query_string has no default, so a call without it raises TypeError
Binds(kwargs) == "query_string" \in DOMAIN kwargs

\* update(): new_papers = query(query_string, until=date_updated)
Update ==
    /\ app_pc = "idle"
    /\ app_pc' = "running"
    /\ app_call' = "update"
    /\ query_string' = collection.query_string
    /\ until' = Some(collection.date_updated)
    /\ max_results' = None
    /\ pc' = "idle"
    /\ UNCHANGED <<app_err, collection, papers0, looked, printed>>
    /\ UNCHANGED <<feed, err, page, count, url, data, pos, paper, gf, env, esc, ent>>

\* papers.extend(new_papers) has pulled the generator to its end: every
\* record it got is appended, and an exception of the generator leaves update
UpdateEnd ==
    /\ app_pc = "running"
    /\ app_call = "update"
    /\ pc \in {"done", "error"}
    /\ collection' =
           [collection EXCEPT !.papers =
               @ \o [i \in 1..Len(delivered) |->
                        paper_from_arxiv_entry(FeedEntry(feed, delivered[i]))]]
    /\ app_pc' = IF pc = "done" THEN "returned" ELSE "raised"
    /\ app_err' = err
    /\ UNCHANGED <<app_call, papers0, looked, printed>>
    /\ UNCHANGED <<args, gen, gf, env, esc, ent>>

\* run(): for paper in query(max_results=10): pprint(paper)
Run ==
    /\ app_pc = "idle"
    /\ app_call' = "run"
    /\ IF Binds(RunKwargs)
       THEN /\ app_pc' = "running"
            /\ max_results' = Some(RunKwargs.max_results)
            /\ until' = None
            /\ pc' = "idle"
            /\ app_err' = app_err
       ELSE /\ app_pc' = "raised"
            /\ app_err' = "TypeError"
            /\ UNCHANGED <<until, max_results, pc>>
    /\ UNCHANGED <<collection, papers0, looked, printed>>
    /\ UNCHANGED <<query_string, feed, err, page, count, url, data, pos, paper>>
    /\ UNCHANGED <<gf, env, esc, ent>>

\* positions of the papers with this id
Holds(id) == {i \in 1..Len(collection.papers) : collection.papers[i].id = id}

\* paper(id): for paper in self.papers(): if paper.id == id: return Paper
\* (the name Paper is the class of models.py, not the loop variable)
PaperLookup(id) ==
    /\ app_pc = "idle"
    /\ app_call' = "paper"
    /\ IF Holds(id) # {}
       THEN /\ app_pc' = "returned"
            /\ looked' = [kind |-> "returned", arg |-> id, is_class |-> TRUE,
                          value |-> NoPaper]
            /\ app_err' = app_err
       ELSE /\ app_pc' = "raised"
            /\ looked' = [kind |-> "raised", arg |-> id, is_class |-> FALSE,
                          value |-> NoPaper]
            /\ app_err' = "ValueError"
    /\ UNCHANGED <<collection, papers0, printed>>
    /\ UNCHANGED <<args, gen, gf, env, esc, ent>>

AppInit ==
    /\ QueryIdle
    /\ feed \in Feeds
    /\ esc_pc = "idle" /\ esc_in = <<>> /\ esc_out = <<>>
    /\ app_pc = "idle" /\ app_call = "none" /\ app_err = "none"
    /\ collection \in Collections
    /\ papers0 = collection.papers
    /\ looked = NoLook /\ printed = <<>>
    /\ EntIdle

\* Of query's actions only the call and the first next() are listed: update
\* passes no max_results, so the first next() ends the generator (PerPage),
\* and run's call creates no generator (Binds).
AppNext ==
    \/ Update
    \/ QueryCall
    \/ NextFirst
    \/ UpdateEnd
    \/ Run
    \/ \E id \in 0..MaxStored : PaperLookup(id)

AppSpec == AppInit /\ [][AppNext]_vars

----------------------------------------------------------------------------
(* Properties *)

\* the iteration is over: the generator returned or an exception left it
Ended == pc \in {"done", "error"}

\* the records a consumer has when it got exactly the first n entries in order
FirstEntries(n) == [i \in 1..n |-> i - 1]

\* `until` is absent or no entry among the first n is older than it (where
\* dates never increase along the feed, entry n - 1 is the oldest)
UntilSilent(n) ==
    \/ ~until.some
    \/ feed.dates \in {"decreasing", "flat"} /\ PubDate(feed, n - 1) >= until.v

\* every entry of the feed has every key
WellFormed == feed.bad = NoBad

\* no page of the feed holds more entries than the request asked for
Capped == feed.extra = 0

C1_Case ==
    /\ max_results.some
    /\ ~feed.finite /\ WellFormed /\ Capped
    /\ UntilSilent(max_results.v)

\* C1 (stop-by-count): with max_results = N, an endless feed and an `until`
\* that never fires, the consumer never holds more than N records; the
\* generator can always go on until it ends; if it ends without a fetch
\* failure it ends cleanly with exactly the first N records; and the pull
\* after the N-th record is the one that ends it.
C1_StopByCount ==
    C1_Case =>
        /\ Len(delivered) <= max_results.v
        /\ (pc = "error" => err = "FeedUnavailable")
        /\ (pc = "done" => err = "none" /\ delivered = FirstEntries(max_results.v))
        /\ (pulls > max_results.v => pc = "done")
        /\ (consumer = "active" /\ ~Ended => ENABLED Next)

C1_Witness ==
    /\ C1_Case
    /\ until.some
    /\ max_results.v > 2 * PageLimit
    /\ pc = "done"
    /\ Len(delivered) = max_results.v
    /\ pulls = max_results.v + 1

\* entry b + 1 is the first entry older than `until` (b = -1: entry 0 is)
Boundary == 0 - until.v

C2_Case ==
    /\ until.some
    /\ WellFormed /\ Capped
    /\ feed.dates = "decreasing"
    /\ Boundary >= 0 - 1
    /\ (feed.finite => feed.len >= Boundary + 2)
    /\ (max_results.some => max_results.v > Boundary + 2)

\* C2 (stop-by-date): with `until` set, max_results absent or larger than the
\* output, and a feed of strictly decreasing dates, the iteration fails only
\* if a fetch does, never holds more than one record older than `until`, and
\* ends cleanly with every record of date >= until followed by the one
\* boundary record.
C2_StopByDate ==
    C2_Case =>
        /\ Len(delivered) <= Boundary + 2
        /\ (pc = "error" => err = "FeedUnavailable")
        /\ (pc = "done" => delivered = FirstEntries(Boundary + 2))

\* C3 (page exhaustion): when a fetched page has zero entries the iteration
\* ends cleanly at once, without requesting another page.
C3_PageExhaustion ==
    [][(pc = "get_feed" /\ gf_pc = "returned" /\ ret.n = 0)
          => (pc' = "done" /\ err' = "none" /\ requests' = requests)]_vars

\* C4 (no stop condition): once query has been called with `until` and
\* max_results both absent, the call has already failed with NoStopCondition,
\* before any pull and without any fetch attempt.
C4_FailsAtCall ==
    (~until.some /\ ~max_results.some /\ pc \notin {"idle", "direct"}) =>
        /\ pc = "error"
        /\ err = "NoStopCondition"
        /\ pulls = 0
        /\ requests = <<>>
        /\ attempts = 0

\* 3 * scaling^i in wait units, written out from the claim
ExpectedWait(s, i) == 3 * Pow(s.num, i) * Pow(s.den, TriesCap - i)

RECURSIVE SumWaits(_, _)
\* the sum of 3 * scaling^i for i in 0..k-1
SumWaits(s, k) == IF k = 0 THEN 0 ELSE SumWaits(s, k - 1) + ExpectedWait(s, k - 1)

\* C5 (retry success and backoff): while fewer than max_tries attempts have
\* been made another attempt can succeed, and when get_feed returns after k
\* failed attempts then k < max_tries, it made k + 1 attempts, it returns the
\* parse of the feed at its URL, the wait after failed attempt i was
\* 3 * scaling^i, and the total wait is the sum of these for i in 0..k-1.
C5_RetrySuccess ==
    /\ (gf_pc = "try" /\ attempts < max_tries => ENABLED GetFeedReturn)
    /\ gf_pc = "returned" =>
           /\ Len(sleeps) < max_tries
           /\ attempts = Len(sleeps) + 1
           /\ ret = FeedResponse(feed, url)
           /\ \A i \in 1..Len(sleeps) :
                  sleeps[i] = ExpectedWait(backoff_scaling, i - 1)
           /\ waited = SumWaits(backoff_scaling, Len(sleeps))

C5_Witness ==
    /\ gf_pc = "returned"
    /\ max_tries = DefaultMaxTries
    /\ backoff_scaling = DefaultScaling
    /\ Len(sleeps) = max_tries - 1
    /\ ret.n = PageLimit

\* C6 (retry exhaustion): get_feed never makes more than max_tries attempts;
\* once max_tries attempts have failed it can only raise; and when it has
\* raised it made exactly max_tries attempts, all failed, returned no feed
\* and does nothing more.
C6_RetryExhaustion ==
    /\ attempts <= max_tries
    /\ (gf_pc = "try" /\ Len(sleeps) = max_tries =>
           ENABLED GetFeedRaise /\ ~ENABLED GetFeedReturn /\ ~ENABLED GetFeedFail)
    /\ gf_pc = "raised" =>
           /\ attempts = max_tries
           /\ Len(sleeps) = max_tries
           /\ ret = NoData
           /\ ~ENABLED GetFeedNext

C6_Witness ==
    /\ gf_pc = "raised"
    /\ max_tries = DefaultMaxTries
    /\ attempts = DefaultMaxTries

\* the per-page cap of an iteration with max_results set
Cap == IF max_results.v < PageLimit THEN max_results.v ELSE PageLimit

\* how many entries a full page holds
PageSize == Cap + feed.extra

\* how many entries the pages 0..p-1 hold
EntriesBefore(p) ==
    IF feed.finite /\ feed.len < p * Cap THEN feed.len ELSE p * PageSize

\* the feed index of the i-th entry (from 1) of the pages concatenated in
\* page order: page q starts at feed index q * Cap
PagedId(i) == ((i - 1) \div PageSize) * Cap + ((i - 1) % PageSize)

\* the first n entries of the pages concatenated in page order
PagedEntries(n) == [i \in 1..n |-> PagedId(i)]

\* C7 (fetch-failure propagation): when the fetch of page p has exhausted its
\* retries the iteration ends with FeedUnavailable in that step, keeping what
\* was delivered; in the failed state the consumer holds every record of
\* pages 0..p-1, page p was the last page requested, and nothing more
\* happens: no record, no request, no attempt.
C7_FetchFailure ==
    /\ [](err = "FeedUnavailable" =>
            /\ pc = "error"
            /\ delivered = PagedEntries(EntriesBefore(page))
            /\ Len(requests) = page + 1
            /\ ~ENABLED Next)
    /\ [][(pc = "get_feed" /\ gf_pc = "raised") =>
             /\ pc' = "error"
             /\ err' = "FeedUnavailable"
             /\ delivered' = delivered
             /\ requests' = requests]_vars

C7_Witness ==
    /\ err = "FeedUnavailable"
    /\ page = 2
    /\ Len(delivered) = 2 * PageLimit

\* C8 (laziness and abandonment): nothing is fetched before the first pull; a
\* fetch is in progress only while the consumer waits in a pull for a record
\* it does not have yet; the page requested last was requested only after
\* every entry of the pages before it was delivered and pulled past; and once
\* the consumer has stopped there is no fetch in progress, no error, and
\* nothing more happens.
C8_Lazy ==
    /\ (pulls = 0 =>
           requests = <<>> /\ gf_pc = "idle" /\ attempts = 0 /\ delivered = <<>>)
    /\ (gf_pc # "idle" =>
           consumer = "active" /\ pulls = Len(delivered) + 1)
    /\ (requests # <<>> =>
           /\ Len(delivered) >= EntriesBefore(Len(requests) - 1)
           /\ pulls > EntriesBefore(Len(requests) - 1))
    /\ (consumer = "stopped" =>
           err = "none" /\ gf_pc = "idle" /\ sleeps = <<>> /\ ~ENABLED Next)

C8_Witness ==
    /\ consumer = "stopped"
    /\ Len(requests) = 2
    /\ Len(delivered) = PageLimit + 1
    /\ pulls = PageLimit + 1

\* C9 (per-page cap): once the first record has been asked for and a stop
\* condition is set, a page request has been issued, and every request
\* carries min(max_results, 1000), or 1000 when max_results is absent.
C9_PerPageCap ==
    (pulls > 0 /\ (until.some \/ max_results.some)) =>
        /\ requests # <<>>
        /\ \A i \in 1..Len(requests) :
               requests[i].max_results =
                   IF max_results.some THEN Cap ELSE PageLimit

\* C10 (pagination offset): the URL in use carries start = page * m and
\* max_results = m; the requests of one iteration are those of pages
\* 0, 1, 2, ... in this order, all with the same cap m >= 1, the i-th one
\* (from 0) starting at i * m; and a fetched page starts at its offset.
C10_Offsets ==
    requests # <<>> =>
        LET m == requests[1].max_results IN
        /\ m >= 1
        /\ Len(requests) = page + 1
        /\ url = requests[Len(requests)]
        /\ \A i \in 1..Len(requests) :
               /\ requests[i] = search_url(query_string, i - 1, m)
               /\ requests[i].start = (i - 1) * m
               /\ requests[i].max_results = m
        /\ (gf_pc = "returned" => ret.lo = page * m)

C10_Witness ==
    /\ Len(requests) = 3
    /\ requests[3].start = 2 * PageLimit
    /\ pc = "yield"
    /\ Len(delivered) = 2 * PageLimit + 1

\* the substitution table applied to one character
EscapedChar(c) ==
    CASE c = "\"" -> <<"%", "2", "2">>
      [] c = " "  -> <<"+">>
      [] c = "("  -> <<"%", "2", "8">>
      [] c = ")"  -> <<"%", "2", "9">>
      [] OTHER    -> <<c>>

RECURSIVE EscapedAtOnce(_)
\* every character of s replaced by its entry of the table, all at once
EscapedAtOnce(s) ==
    IF s = <<>> THEN <<>> ELSE EscapedChar(Head(s)) \o EscapedAtOnce(Tail(s))

\* C11 (escaping): html_escaping returns its argument with each double
\* quote, space, ( and ) replaced by %22, +, %28 and %29 and every other
\* character unchanged and in place: the four replacements made one after
\* the other give what the per-character substitution gives, and no reserved
\* character is left in the result.
C11_Escaping ==
    esc_pc = "returned" =>
        /\ esc_out = EscapedAtOnce(esc_in)
        /\ \A i \in 1..Len(esc_out) : esc_out[i] \notin {"\"", " ", "(", ")"}

C11_Witness ==
    /\ esc_pc = "returned"
    /\ esc_in = <<"(", "\"", ")">>
    /\ esc_out = <<"%", "2", "8", "%", "2", "2", "%", "2", "9">>

\* the caller's operation is over
AppEnded == app_pc \in {"returned", "raised"}

\* the records of the first n entries of the feed
FirstPapers(n) == [i \in 1..n |-> paper_from_arxiv_entry(FeedEntry(feed, i - 1))]

\* C12 (collection update): update() runs query with the collection's query
\* string and until = date_updated; it fails only if a fetch does; the papers
\* held before stay as a prefix; and when it returns against an endless
\* feed of decreasing dates, the collection holds the old papers followed by
\* every record of date >= date_updated and the one boundary record.
C12_Update ==
    (app_call = "update" /\ AppEnded) =>
        /\ query_string = collection.query_string
        /\ until = Some(collection.date_updated)
        /\ app_err \in {"none", "FeedUnavailable"}
        /\ Len(collection.papers) >= Len(papers0)
        /\ SubSeq(collection.papers, 1, Len(papers0)) = papers0
        /\ (app_pc = "returned" /\ ~feed.finite /\ WellFormed /\ Capped
                /\ feed.dates = "decreasing") =>
               collection.papers = papers0 \o FirstPapers(Boundary + 2)

\* C13 (CLI run): run invokes query with max_results = 10 and no until and
\* prints each record: against a feed of at least 10 entries it ends without
\* error having printed exactly 10 records.
C13_Run ==
    (app_call = "run" /\ AppEnded /\ (feed.finite => feed.len >= RunMaxResults)) =>
        /\ app_pc = "returned"
        /\ app_err = "none"
        /\ max_results = Some(RunMaxResults)
        /\ until = None
        /\ Len(printed) = RunMaxResults

\* the first paper of the collection with this id
FirstHeld(id) ==
    collection.papers[CHOOSE i \in Holds(id) : \A j \in Holds(id) : i <= j]

\* C14 (paper lookup): paper(id) leaves the collection as it was; it returns
\* the first stored paper with that id when there is one, and raises
\* ValueError when there is none.
C14_PaperLookup ==
    (app_call = "paper" /\ AppEnded) =>
        /\ collection.papers = papers0
        /\ IF Holds(looked.arg) # {}
           THEN /\ looked.kind = "returned"
                /\ ~looked.is_class
                /\ looked.value = FirstHeld(looked.arg)
           ELSE /\ looked.kind = "raised"
                /\ app_err = "ValueError"

\* C15 (malformed entry): when entry j of the feed lacks a field, the
\* iteration never delivers more than the j entries before it; once they are
\* delivered and the consumer pulls again the iteration ends, by a stop
\* condition on the last record or by an error (MalformedEntry unless the
\* iteration failed before it read the entry), never by going on; and in the
\* state failed with MalformedEntry the consumer holds exactly the entries
\* before the malformed one, the page holding it was the last one requested,
\* and nothing more happens.
C15_MalformedEntry ==
    /\ (err = "MalformedEntry" =>
            /\ pc = "error"
            /\ feed.bad # NoBad
            /\ delivered = FirstEntries(feed.bad)
            /\ page = feed.bad \div Cap
            /\ Len(requests) = page + 1
            /\ ~ENABLED Next)
    /\ (feed.bad # NoBad => Len(delivered) <= feed.bad)
    /\ (feed.bad # NoBad /\ Len(delivered) = feed.bad /\ pulls > feed.bad
             /\ pc # "get_feed" =>
            /\ Ended
            /\ (pc = "error" =>
                   err \in {"MalformedEntry", "FeedUnavailable", "TypeError",
                            "NoStopCondition"})
            /\ (pc = "done" =>
                   \/ max_results.some /\ Len(delivered) = max_results.v
                   \/ until.some /\ PubDate(feed, feed.bad - 1) < until.v))

C15_Witness ==
    /\ err = "MalformedEntry"
    /\ feed.bad = PageLimit
    /\ page = 1
    /\ Len(delivered) = PageLimit

RECURSIVE Collapsed(_, _)
\* the text t from position i on, keeping each non-whitespace character and,
\* as one space, the first character of each whitespace run that has a
\* non-whitespace character on both sides
Collapsed(t, i) ==
    IF i > Len(t) THEN <<>>
    ELSE IF t[i] \notin Whitespace THEN <<t[i]>> \o Collapsed(t, i + 1)
    ELSE IF /\ i > 1
            /\ t[i - 1] \notin Whitespace
            /\ \E j \in (i + 1)..Len(t) : t[j] \notin Whitespace
         THEN <<" ">> \o Collapsed(t, i + 1)
         ELSE Collapsed(t, i + 1)

\* t has no whitespace but single spaces between other characters
Normal(t) ==
    /\ \A i \in 1..Len(t) : t[i] \in Whitespace => t[i] = " "
    /\ t # <<>> => t[1] # " " /\ t[Len(t)] # " "
    /\ \A i \in 1..(Len(t) - 1) : ~(t[i] = " " /\ t[i + 1] = " ")

\* C16 (normalisation): the paper built from an entry has the entry's title
\* with every whitespace run collapsed to one space and the ends trimmed, a
\* title that normalising again leaves as it is; the entry's summary with
\* each newline replaced by a space and every other character in place; the
\* authors' names in the entry's order; and no embedding.
C16_Normalization ==
    ent_pc = "returned" =>
        /\ made.title = Collapsed(entry.title, 1)
        /\ Normal(made.title)
        /\ NormTitle(made.title) = made.title
        /\ Len(made.abstract) = Len(entry.summary)
        /\ \A i \in 1..Len(entry.summary) :
              made.abstract[i] =
                  IF entry.summary[i] = "\n" THEN " " ELSE entry.summary[i]
        /\ Len(made.authors) = Len(entry.authors)
        /\ \A i \in 1..Len(entry.authors) : made.authors[i] = entry.authors[i].name
        /\ made.embedding = None

C16_Witness ==
    /\ ent_pc = "returned"
    /\ entry.title = <<"a", "\n", "\t", "a">>
    /\ made.title = <<"a", " ", "a">>
    /\ entry.authors = <<[name |-> "y"], [name |-> "x"]>>

\* C17 (both stop conditions): with max_results = N and until both set, an
\* iteration that has ended normally delivered a prefix of the pages in page
\* order, each in feed order, whose last record is the N-th or is older than until, and none of
\* the records before the last one is either; a record published exactly at
\* until is not older.
C17_BothConditions ==
    (pc = "done" /\ max_results.some /\ until.some /\ WellFormed) =>
        /\ delivered # <<>>
        /\ delivered = PagedEntries(Len(delivered))
        /\ \/ Len(delivered) = max_results.v
           \/ PubDate(feed, PagedId(Len(delivered))) < until.v
        /\ \A k \in 1..(Len(delivered) - 1) :
              k < max_results.v /\ PubDate(feed, PagedId(k)) >= until.v

C17_Witness ==
    /\ pc = "done"
    /\ feed.dates = "zigzag"
    /\ max_results = Some(2 * PageLimit + 1)
    /\ until = Some(0 - PageLimit)
    /\ Len(delivered) = PageLimit + 3

\* C18 (retry state is per fetch): every step of an iteration that requests
\* a page enters get_feed at attempt index 0 with no attempt made, no wait
\* done and max_tries at its default; and in every fetch, whatever failed
\* before it, the attempts made are the failed ones (plus the successful
\* one), failed attempt i was followed by a wait of 3 * scaling^i, the first
\* by 3, another attempt is possible while fewer than max_tries were made,
\* and the fetch has failed only after max_tries attempts.
C18_PerFetch ==
    /\ [][requests' # requests =>
             /\ gf_pc' = "try"
             /\ current_try' = 0
             /\ attempts' = 0
             /\ sleeps' = <<>>
             /\ waited' = 0
             /\ max_tries' = DefaultMaxTries
             /\ backoff_scaling' = DefaultScaling]_vars
    /\ [](pc = "get_feed" =>
             /\ Len(sleeps) = current_try
             /\ attempts = current_try + (IF gf_pc = "returned" THEN 1 ELSE 0)
             /\ \A i \in 1..Len(sleeps) : sleeps[i] = ExpectedWait(DefaultScaling, i - 1)
             /\ (sleeps # <<>> => sleeps[1] = 3 * WaitUnit(DefaultScaling))
             /\ (gf_pc = "try" /\ attempts < DefaultMaxTries =>
                    ENABLED GetFeedReturn /\ ENABLED GetFeedFail)
             /\ (gf_pc = "raised" => attempts = DefaultMaxTries))

C18_Witness ==
    /\ earlier_failed
    /\ page = 1
    /\ Len(delivered) = PageLimit
    /\ pc = "get_feed"
    /\ gf_pc = "raised"
    /\ attempts = DefaultMaxTries
    /\ sleeps[1] = 3 * WaitUnit(DefaultScaling)

\* C19 (count cap): with max_results = N the consumer never holds more than
\* N records and the generator's count never exceeds N, on every feed of the
\* model (finite, endless, unsorted, with a malformed entry, with pages
\* larger than asked for) and with or without until.
C19_CountCap ==
    max_results.some =>
        /\ Len(delivered) <= max_results.v
        /\ count <= max_results.v

C19_Witness ==
    /\ feed.extra = 1
    /\ max_results = Some(MaxSmall)
    /\ until.some
    /\ pc = "done"
    /\ data.n = MaxSmall + 1
    /\ Len(delivered) = MaxSmall

\* C20 (wait after the final failed attempt): in get_feed the waits done are
\* as many as the failed attempts at every moment, the wait after failed
\* attempt i is 3 * scaling^i, so the error is raised only after max_tries
\* waits whose total is the sum of 3 * scaling^i for i in 0..max_tries-1;
\* with max_tries = 0 the call can only raise, with no attempt and no wait.
C20_FinalWait ==
    /\ (gf_pc \in {"try", "raised"} =>
            /\ Len(sleeps) = attempts
            /\ \A i \in 1..attempts : sleeps[i] = ExpectedWait(backoff_scaling, i - 1)
            /\ waited = SumWaits(backoff_scaling, attempts))
    /\ (gf_pc = "raised" =>
            /\ Len(sleeps) = max_tries
            /\ (max_tries > 0 =>
                   sleeps[max_tries] = ExpectedWait(backoff_scaling, max_tries - 1))
            /\ waited = SumWaits(backoff_scaling, max_tries))
    /\ (max_tries = 0 =>
            /\ attempts = 0 /\ waited = 0 /\ sleeps = <<>> /\ ret = NoData
            /\ (gf_pc = "try" =>
                   ENABLED GetFeedRaise /\ ~ENABLED GetFeedReturn /\ ~ENABLED GetFeedFail))

C20_Witness ==
    /\ gf_pc = "raised"
    /\ backoff_scaling = DefaultScaling
    /\ max_tries = MaxTriesArg
    /\ Len(sleeps) = MaxTriesArg
    /\ waited = SumWaits(DefaultScaling, MaxTriesArg)

====
